---- MODULE Spec2Model ----
(***************************************************************************)
(* JsMacros Version Finder: the catalog loader loadBuilds, the version     *)
(* comparator compareVersions and the facet extraction (src/dataLoader.ts),*)
(* the catalog validator (PLAN.md), and App in its two revisions: its      *)
(* state, its event handlers and its memoized query results.               *)
(*                                                                         *)
(* A JavaScript string is a sequence of one-character strings, so that     *)
(* split, trim, toLowerCase, join and includes are computed character by   *)
(* character.                                                              *)
(***************************************************************************)
EXTENDS Integers, Sequences, FiniteSets, TLC

(***************************************************************************)
(* Bounds                                                                  *)
(***************************************************************************)
\* largest number of dot-separated components of a compared version string
MaxParts == 3
\* largest number of Build entries of a catalog
MaxBuilds == 3
\* largest number of extensions a guide selection requires
MaxRequired == 2
\* largest number of Build entries of a validated catalog one of whose
\* Builds departs from the schema
MaxDefectBuilds == 2
MaxChainParts == 2

(***************************************************************************)
(* String primitives                                                       *)
(***************************************************************************)
Digits == <<"0", "1", "2", "3", "4", "5", "6", "7", "8", "9">>

IsDigit(c) == \E i \in 1..Len(Digits) : Digits[i] = c

DigitVal(c) == (CHOOSE i \in 1..Len(Digits) : Digits[i] = c) - 1

\* String.prototype.split('.'): "" splits to one empty component
RECURSIVE SplitFrom(_, _, _)
SplitFrom(s, cur, acc) ==
    IF s = <<>> THEN Append(acc, cur)
    ELSE IF Head(s) = "." THEN SplitFrom(Tail(s), <<>>, Append(acc, cur))
    ELSE SplitFrom(Tail(s), Append(cur, Head(s)), acc)

SplitDots(s) == SplitFrom(s, <<>>, <<>>)

\* Array.prototype.join(sep) on an array of strings
RECURSIVE JoinWith(_, _)
JoinWith(parts, sep) ==
    IF parts = <<>> THEN <<>>
    ELSE IF Len(parts) = 1 THEN parts[1]
    ELSE parts[1] \o sep \o JoinWith(Tail(parts), sep)

\* String.prototype.trim, for the white space of the model (the blank)
RECURSIVE TrimLeft(_)
TrimLeft(s) == IF s # <<>> /\ Head(s) = " " THEN TrimLeft(Tail(s)) ELSE s

RECURSIVE TrimRight(_)
TrimRight(s) ==
    IF s # <<>> /\ s[Len(s)] = " " THEN TrimRight(SubSeq(s, 1, Len(s) - 1)) ELSE s

Trim(s) == TrimRight(TrimLeft(s))

RECURSIVE DecValue(_)
DecValue(ds) ==
    IF ds = <<>> THEN 0
    ELSE 10 * DecValue(SubSeq(ds, 1, Len(ds) - 1)) + DigitVal(ds[Len(ds)])

IsDigits(s) == s # <<>> /\ \A i \in 1..Len(s) : IsDigit(s[i])

\* Number(v): StringToNumber strips white space, reads the empty string as
\* 0 and a signed decimal integer as its value; every other text over the
\* characters of the model (digits, sign, blank, the letter a) is NaN.
NumberIsNaN(v) ==
    LET t == Trim(v)
    IN  ~ \/ t = <<>>
          \/ IsDigits(t)
          \/ (Head(t) \in {"-", "+"} /\ IsDigits(Tail(t)))

NumberValue(v) ==
    LET t == Trim(v)
    IN  IF t = <<>> THEN 0
        ELSE IF IsDigits(t) THEN DecValue(t)
        ELSE IF Head(t) = "-" THEN 0 - DecValue(Tail(t))
        ELSE DecValue(Tail(t))

\* Number(v) || 0 : NaN (and 0, -0) give 0
NumberOrZero(v) == IF NumberIsNaN(v) THEN 0 ELSE NumberValue(v)

(***************************************************************************)
(* compareVersions                                                         *)
(***************************************************************************)
VersionParts(s) ==
    LET p == SplitDots(s) IN [i \in 1..Len(p) |-> NumberOrZero(p[i])]

Max(x, y) == IF x >= y THEN x ELSE y

\* ap[i] ?? 0
PartAt(ap, i) == IF i <= Len(ap) THEN ap[i] ELSE 0

RECURSIVE CompareFrom(_, _, _)
CompareFrom(ap, bp, i) ==
    IF i > Max(Len(ap), Len(bp)) THEN Len(ap) - Len(bp)
    ELSE IF PartAt(ap, i) # PartAt(bp, i) THEN PartAt(ap, i) - PartAt(bp, i)
    ELSE CompareFrom(ap, bp, i + 1)

\* a faulty compareVersions: the final tie-break on the number of components
\* is dropped
compareVersionsNoTie(a, b) ==
    LET ap == VersionParts(a)
        bp == VersionParts(b)
        d  == {i \in 1..Max(Len(ap), Len(bp)) : PartAt(ap, i) # PartAt(bp, i)}
    IN  IF d = {} THEN 0
        ELSE LET i == CHOOSE j \in d : \A k \in d : j <= k
             IN  PartAt(ap, i) - PartAt(bp, i)

\* a faulty compareVersions: the result tells only whether a is the larger
compareVersionsGreater(a, b) ==
    IF CompareFrom(VersionParts(a), VersionParts(b), 1) > 0 THEN 1 ELSE 0

\* a faulty compareVersions: the components are compared as text (by their
\* first digit)
compareVersionsText(a, b) ==
    LET Lead(v) == IF v # <<>> /\ IsDigit(Head(v)) THEN DigitVal(Head(v)) ELSE 0
        ap == [i \in 1..Len(SplitDots(a)) |-> Lead(SplitDots(a)[i])]
        bp == [i \in 1..Len(SplitDots(b)) |-> Lead(SplitDots(b)[i])]
    IN  CompareFrom(ap, bp, 1)

\* a faulty compareVersions: only the positions both versions have are
\* compared (Math.min for Math.max), and the tie-break is dropped
compareVersionsSharedOnly(a, b) ==
    LET ap == VersionParts(a)
        bp == VersionParts(b)
        n  == IF Len(ap) <= Len(bp) THEN Len(ap) ELSE Len(bp)
        d  == {i \in 1..n : ap[i] # bp[i]}
    IN  IF d = {} THEN 0
        ELSE LET i == CHOOSE j \in d : \A k \in d : j <= k
             IN  ap[i] - bp[i]

compareVersions(a, b) == CompareFrom(VersionParts(a), VersionParts(b), 1)

(***************************************************************************)
(* Inputs of the comparison                                                *)
(***************************************************************************)
\* components of the compared version strings: zero, a one- and a two-digit
\* number, a non-numeric component, a negative number
VersionComponents ==
    { <<"0">>, <<"9">>, <<"1", "0">>, <<"a">>, <<"-", "1">> }

VersionStrings ==
    { JoinWith(cs, <<".">>) :
        cs \in UNION { [1..n -> VersionComponents] : n \in 1..MaxParts } }

\* components of the versions compared three at a time: zero, a non-numeric
\* component (which counts as zero), a positive and a negative number
ChainComponents ==
    { <<"0">>, <<"a">>, <<"9">>, <<"-", "1">> }

ChainStrings ==
    { JoinWith(cs, <<".">>) :
        cs \in UNION { [1..n -> ChainComponents] : n \in 1..MaxChainParts } }

(***************************************************************************)
(* Catalog data (types.ts: Build, BuildsData, EnrichedBuild)               *)
(***************************************************************************)
fabric == <<"f", "a", "b", "r", "i", "c">>
forge  == <<"f", "o", "r", "g", "e">>
luaj   == <<"l", "u", "a", "j">>
js     == <<"j", "s">>
jython == <<"j", "y", "t", "h", "o", "n">>
release == <<"r", "e", "l", "e", "a", "s", "e">>
beta    == <<"b", "e", "t", "a">>
nightly == <<"n", "i", "g", "h", "t", "l", "y">>

Loaders == {fabric, forge}
ExtensionNames == {luaj, js, jython}

\* keys of the version groups
McVersions == { <<"2", ".", "9">>, <<"2", ".", "1", "0">> }

Download1 == [name |-> "a.jar", platform |-> "fabric", url |-> "https://h/a.jar"]

\* the Build entries catalogs are made of; optional fields (status,
\* publishedAt, notes, and sourceUrl and deprecated, which part_001 reads)
\* are fields the record does not have
Build1 ==
    [id |-> "b1", repo |-> <<"J", "s", "/", "M">>, fork |-> <<"J", "s", "M">>,
     commit |-> "abcdef1", jsMacrosVersion |-> <<"2", ".", "9">>,
     modLoader |-> <<fabric>>, extensions |-> <<luaj, js>>,
     downloads |-> <<Download1>>, releaseType |-> release,
     status |-> "supported",
     publishedAt |-> <<"2", "0", "2", "4", "-", "1", "2", "-", "1", "0">>]

Build2 ==
    [id |-> "b2", repo |-> <<"J", "s", "/", "M">>, fork |-> <<"J", "s", "M">>,
     commit |-> "abcdef2", jsMacrosVersion |-> <<"2", ".", "1", "0">>,
     modLoader |-> <<fabric, forge>>, extensions |-> <<luaj, js, jython>>,
     downloads |-> <<Download1>>, releaseType |-> beta,
     notes |-> <<"N", "e", "w">>]

Build3 ==
    [id |-> "b3", repo |-> <<"x", "/", "F">>, fork |-> <<"F", "k">>,
     commit |-> "abcdef3", jsMacrosVersion |-> <<"2", ".", "9">>,
     modLoader |-> <<forge>>, extensions |-> <<luaj>>,
     downloads |-> <<Download1>>, releaseType |-> nightly,
     publishedAt |-> <<"1", "9", "6", "9", "-", "1", "2", "-", "3", "1">>,
     sourceUrl |-> <<"h", ":", "/", "/", "s">>]

Build4 ==
    [id |-> "b4", repo |-> <<"J", "s", "/", "M">>, fork |-> <<"J", "s", "M">>,
     commit |-> "abcdef4", jsMacrosVersion |-> <<"2", ".", "1", "0">>,
     modLoader |-> <<fabric>>, extensions |-> <<js, jython>>,
     downloads |-> <<Download1>>, releaseType |-> release,
     publishedAt |-> <<"2", "0", "2", "4", "-", "1", "2", "-", "1", "0">>,
     deprecated |-> TRUE]

Build5 ==
    [id |-> "b5", repo |-> <<"x", "/", "F">>, fork |-> <<"F", "k">>,
     commit |-> "abcdef5", jsMacrosVersion |-> <<"2", ".", "9", ".", "1">>,
     modLoader |-> <<forge>>, extensions |-> <<js>>,
     downloads |-> <<Download1>>, releaseType |-> beta,
     publishedAt |-> <<"2", "0", "2", "4", "-", "1", "3", "-", "0", "1">>]

BuildPool == {Build1, Build2, Build3, Build4, Build5}

\* sequences of distinct elements of S, of length n
DistinctSeqs(S, n) ==
    {q \in [1..n -> S] : \A i, j \in 1..n : i # j => q[i] # q[j]}

RECURSIVE SumLens(_)
SumLens(groups) ==
    IF groups = <<>> THEN 0 ELSE Len(Head(groups).arr) + SumLens(Tail(groups))

\* the ways of cutting a sequence into consecutive non-empty groups
RECURSIVE Cuts(_)
Cuts(q) ==
    IF q = <<>> THEN {<<>>}
    ELSE UNION { { <<SubSeq(q, 1, k)>> \o rest :
                      rest \in Cuts(SubSeq(q, k + 1, Len(q))) } : k \in 1..Len(q) }

\* the `versions` mapping of a parsed catalog, as its entries in property
\* order: distinct keys, Build ids distinct across the whole catalog
VersionMappings ==
    UNION { UNION { UNION {
        { [i \in 1..Len(cut) |-> [key |-> ks[i], arr |-> cut[i]]] :
            ks \in DistinctSeqs(McVersions, Len(cut)) } :
        cut \in Cuts(q) } :
        q \in DistinctSeqs(BuildPool, n) } : n \in 0..MaxBuilds }

\* parsed payloads: catalogs, and a payload without `versions`
Payloads ==
    { [updatedAt |-> "2025-01-05", versions |-> m] : m \in VersionMappings }
        \cup { [updatedAt |-> "2025-01-05"] }

\* JavaScript's null
Null == [null |-> TRUE]

(***************************************************************************)
(* loadBuilds                                                              *)
(***************************************************************************)
\* arr.map((b) => ({ ...b, mcVersion }))
Enrich(b, mcVersion) == ("mcVersion" :> mcVersion) @@ b

\* a faulty Flatten: every Build is tagged with the key of the first group
FlattenFirstKey(entries) ==
    IF entries = <<>> THEN <<>>
    ELSE LET F[i \in 0..Len(entries)] ==
                IF i = 0 THEN <<>>
                ELSE F[i - 1] \o [j \in 1..Len(entries[i].arr) |->
                                    Enrich(entries[i].arr[j], entries[1].key)]
         IN  F[Len(entries)]

\* Object.entries(versions).flatMap(([mcVersion, arr]) => arr.map(...))
RECURSIVE Flatten(_)
Flatten(entries) ==
    IF entries = <<>> THEN <<>>
    ELSE LET e == Head(entries)
         IN  [j \in 1..Len(e.arr) |-> Enrich(e.arr[j], e.key)]
                \o Flatten(Tail(entries))

\* what the fetch of the catalog can produce: fetch rejects with an Error,
\* something that is not an Error is thrown, the status is
\* not 2xx, the body is not JSON, the body is JSON whose shape makes the
\* flattening throw (a group that is not an array), the body is a payload
Responses ==
    { [kind |-> "rejected", message |-> "Failed to fetch"] }
        \cup { [kind |-> "thrownValue"] }
        \cup { [kind |-> "notOk", status |-> st] : st \in {404, 500} }
        \cup { [kind |-> "badJson", message |-> "Unexpected token"] }
        \cup { [kind |-> "badShape", message |-> "arr.map is not a function"] }
        \cup { [kind |-> "ok", json |-> p] : p \in Payloads }

StatusText(st) == IF st = 404 THEN "404" ELSE "500"

\* a faulty loadBuilds: without the try/catch, what fetch, json() or the
\* flattening throws rejects the promise
loadBuildsNoCatch(res) ==
    IF res.kind = "notOk"
      THEN [data |-> Null, builds |-> <<>>,
            error |-> <<"Failed to fetch data (", StatusText(res.status), ")">>]
    ELSE IF res.kind \in {"rejected", "badJson", "badShape", "thrownValue"}
      THEN [rejected |-> TRUE]
    ELSE [data |-> res.json,
          builds |-> Flatten(IF "versions" \in DOMAIN res.json
                               THEN res.json.versions ELSE <<>>)]

\* the value the promise of loadBuilds resolves to; the error message is
\* the sequence of the pieces of text it is put together from
loadBuilds(res) ==
    IF res.kind = "notOk"
      THEN [data |-> Null, builds |-> <<>>,
            error |-> <<"Failed to fetch data (", StatusText(res.status), ")">>]
    ELSE IF res.kind \in {"rejected", "badJson", "badShape"}
      THEN [data |-> Null, builds |-> <<>>, error |-> <<res.message>>]
    ELSE IF res.kind = "thrownValue"
      THEN [data |-> Null, builds |-> <<>>, error |-> <<"Unknown error">>]
    ELSE [data |-> res.json,
          builds |-> Flatten(IF "versions" \in DOMAIN res.json
                               THEN res.json.versions ELSE <<>>)]

\* a text given as its pieces is not the empty string (it is truthy)
NonEmptyText(pieces) == \E i \in 1..Len(pieces) : pieces[i] # ""

(***************************************************************************)
(* Text and date primitives of the view                                    *)
(***************************************************************************)
UpperCase == <<"A", "B", "C", "D", "E", "F", "G", "H", "I", "J", "K", "L", "M",
               "N", "O", "P", "Q", "R", "S", "T", "U", "V", "W", "X", "Y", "Z">>
LowerCase == <<"a", "b", "c", "d", "e", "f", "g", "h", "i", "j", "k", "l", "m",
               "n", "o", "p", "q", "r", "s", "t", "u", "v", "w", "x", "y", "z">>

LowerChar(c) ==
    IF \E i \in 1..26 : UpperCase[i] = c
      THEN LowerCase[CHOOSE i \in 1..26 : UpperCase[i] = c]
      ELSE c

\* String.prototype.toLowerCase
ToLowerCase(s) == [i \in 1..Len(s) |-> LowerChar(s[i])]

\* String.prototype.includes
Includes(hay, needle) ==
    \E i \in 1..(Len(hay) - Len(needle) + 1) :
        SubSeq(hay, i, i + Len(needle) - 1) = needle

\* Array.prototype.includes
ArrayIncludes(arr, x) == \E i \in 1..Len(arr) : arr[i] = x

\* collation order of the characters version strings are written with
CollationOrder == <<"-", ".", "0", "1", "2", "3", "4", "5", "6", "7", "8", "9">>

CharRank(c) == CHOOSE i \in 1..Len(CollationOrder) : CollationOrder[i] = c

\* String.prototype.localeCompare on strings of those characters: the
\* first differing character decides, a proper prefix comes first
RECURSIVE localeCompare(_, _)
localeCompare(x, y) ==
    IF x = <<>> /\ y = <<>> THEN 0
    ELSE IF x = <<>> THEN -1
    ELSE IF y = <<>> THEN 1
    ELSE IF CharRank(Head(x)) < CharRank(Head(y)) THEN -1
    ELSE IF CharRank(Head(x)) > CharRank(Head(y)) THEN 1
    ELSE localeCompare(Tail(x), Tail(y))

DaysInMonth(y, m) ==
    IF m = 2
      THEN IF (y % 4 = 0 /\ y % 100 # 0) \/ y % 400 = 0 THEN 29 ELSE 28
      ELSE IF m \in {4, 6, 9, 11} THEN 30 ELSE 31

\* days from 1970-01-01 to the civil date y-m-d
DaysFromCivil(y, m, d) ==
    LET yy  == IF m <= 2 THEN y - 1 ELSE y
        era == yy \div 400
        yoe == yy - era * 400
        mp  == (m + 9) % 12
        doy == (153 * mp + 2) \div 5 + d - 1
        doe == yoe * 365 + yoe \div 4 - yoe \div 100 + doy
    IN  era * 146097 + doe - 719468

\* new Date(value).getTime() for a date-only string YYYY-MM-DD: UTC
\* midnight of that day, NaN when the month or the day is out of range
\* (engines differ on a day past the end of a shorter month; no date of the
\* model has one).
\* The time is counted in days (every such time is a multiple of
\* 86 400 000 ms, and only differences and their signs are used).
DateGetTime(value) ==
    IF ~ /\ Len(value) = 10
         /\ value[5] = "-" /\ value[8] = "-"
         /\ IsDigits(SubSeq(value, 1, 4))
         /\ IsDigits(SubSeq(value, 6, 7))
         /\ IsDigits(SubSeq(value, 9, 10))
      THEN [nan |-> TRUE, t |-> 0]
      ELSE LET y == DecValue(SubSeq(value, 1, 4))
               m == DecValue(SubSeq(value, 6, 7))
               d == DecValue(SubSeq(value, 9, 10))
           IN  IF m \in 1..12 /\ d \in 1..DaysInMonth(y, m)
                 THEN [nan |-> FALSE, t |-> DaysFromCivil(y, m, d)]
                 ELSE [nan |-> TRUE, t |-> 0]

\* a.publishedAt ? new Date(a.publishedAt).getTime() : 0
PublishedTime(b) ==
    IF "publishedAt" \in DOMAIN b /\ b.publishedAt # <<>>
      THEN DateGetTime(b.publishedAt)
      ELSE [nan |-> FALSE, t |-> 0]

(***************************************************************************)
(* Array.prototype.sort                                                    *)
(***************************************************************************)
IndexPermutations(n) == {p \in [1..n -> 1..n] : \A i, j \in 1..n : i # j => p[i] # p[j]}

\* The arrays sort can return.  The sort is stable and, given a consistent
\* comparator, returns the one arrangement in which every element is
\* followed by one that compares larger, or by one that compares equal and
\* stood after it.  Given an inconsistent comparator the order is
\* implementation-defined; the comparisons an insertion or a merge sort
\* makes still establish this of every two neighbours, and the arrangements
\* with that property are the possible results.
\* c[i][j] is the comparator's result for s[i] and s[j].
SortOutcomes(s, c) ==
    { [i \in 1..Len(s) |-> s[p[i]]] :
        p \in { q \in IndexPermutations(Len(s)) :
                  \A i \in 1..(Len(s) - 1) :
                      \/ c[q[i]][q[i + 1]] < 0
                      \/ (c[q[i]][q[i + 1]] = 0 /\ q[i] < q[i + 1]) } }

(***************************************************************************)
(* Facet extraction: uniqueSorted and sortVersions                         *)
(***************************************************************************)
\* Array.from(new Set(values)): the distinct values, each where it first
\* occurs
RECURSIVE Unique(_)
Unique(values) ==
    IF values = <<>> THEN <<>>
    ELSE LET init == Unique(SubSeq(values, 1, Len(values) - 1))
             last == values[Len(values)]
         IN  IF ArrayIncludes(init, last) THEN init ELSE Append(init, last)

\* the characters of the model in the order of their UTF-16 code units
CodeUnitOrder ==
    <<" ", "-", ".", "/", "0", "1", "2", "3", "4", "5", "6", "7", "8", "9", ":">>
        \o UpperCase \o LowerCase

CodeUnit(c) == CHOOSE i \in 1..Len(CodeUnitOrder) : CodeUnitOrder[i] = c

\* the comparison sort() makes without a comparator: by code units, the
\* first difference decides, a proper prefix comes first
RECURSIVE SortCompare(_, _)
SortCompare(x, y) ==
    IF x = <<>> /\ y = <<>> THEN 0
    ELSE IF x = <<>> THEN -1
    ELSE IF y = <<>> THEN 1
    ELSE IF CodeUnit(Head(x)) # CodeUnit(Head(y))
      THEN CodeUnit(Head(x)) - CodeUnit(Head(y))
    ELSE SortCompare(Tail(x), Tail(y))

\* the arrays uniqueSorted can return
uniqueSorted(values) ==
    LET uniq == Unique(values)
        c == [i \in 1..Len(uniq) |->
                [j \in 1..Len(uniq) |-> SortCompare(uniq[i], uniq[j])]]
    IN  SortOutcomes(uniq, c)

\* a faulty sortVersions: the direction is not looked at
sortVersionsAscending(values, direction) ==
    LET uniq == Unique(values)
        c == [i \in 1..Len(uniq) |->
                [j \in 1..Len(uniq) |-> compareVersions(uniq[i], uniq[j])]]
    IN  SortOutcomes(uniq, c)

\* the arrays sortVersions can return
sortVersions(values, direction) ==
    LET uniq == Unique(values)
        c == [i \in 1..Len(uniq) |->
                [j \in 1..Len(uniq) |->
                    IF direction = "asc"
                      THEN compareVersions(uniq[i], uniq[j])
                      ELSE compareVersions(uniq[j], uniq[i])]]
    IN  SortOutcomes(uniq, c)

\* values facets are extracted from: version strings that compare equal
\* without being the same text (a and 0), and ones whose order as text is
\* not their order as versions
FacetStrings ==
    { <<"2", ".", "9">>, <<"2", ".", "1", "0">>, <<"2", ".", "9", ".", "0">>,
      <<"1", "0">>, <<"a">>, <<"0">> }

FacetInputs == UNION { [1..n -> FacetStrings] : n \in 0..MaxBuilds }

(***************************************************************************)
(* The memoized values of App: guideResults and listResults                *)
(***************************************************************************)
\* a faulty buildMatchesExtensions: an entry passes when it has any one of
\* the required extensions
buildMatchesAnyExtension(build, required) ==
    \/ required = <<>>
    \/ \E i \in 1..Len(required) : ArrayIncludes(build.extensions, required[i])

buildMatchesExtensions(build, required) ==
    \/ required = <<>>
    \/ \A i \in 1..Len(required) : ArrayIncludes(build.extensions, required[i])

\* a faulty GuideFilter: the selected version is not looked at
GuideFilterAnyVersion(b, selMc, selLoader, required) ==
    /\ ~(selLoader # <<>> /\ ~ArrayIncludes(b.modLoader, selLoader))
    /\ buildMatchesExtensions(b, required)

\* the filter callback of guideResults
GuideFilter(b, selMc, selLoader, required) ==
    /\ ~(selMc # <<>> /\ b.mcVersion # selMc)
    /\ ~(selLoader # <<>> /\ ~ArrayIncludes(b.modLoader, selLoader))
    /\ buildMatchesExtensions(b, required)

\* the comparator of guideResults in part_001; sort reads a NaN result as 0
GuideCompare(a, b) ==
    LET da == PublishedTime(a)
        db == PublishedTime(b)
    IN  IF da.nan \/ db.nan THEN 0
        ELSE IF da.t # db.t THEN db.t - da.t
        ELSE compareVersions(b.mcVersion, a.mcVersion)

\* the values guideResults can take in the two revisions of App
GuideResults(rev, all, selMc, selLoader, required) ==
    LET Keep(b) == GuideFilter(b, selMc, selLoader, required)
        kept == SelectSeq(all, Keep)
        c == [i \in 1..Len(kept) |->
                [j \in 1..Len(kept) |-> GuideCompare(kept[i], kept[j])]]
    IN  IF rev = "part_000" THEN {kept} ELSE SortOutcomes(kept, c)

\* the text of an optional string field, '' when the entry has none
FieldOrEmpty(b, f) == IF f \in DOMAIN b THEN b[f] ELSE <<>>

\* the haystack of the search in part_000
Haystack000(b) ==
    ToLowerCase(JoinWith(<<b.mcVersion, b.jsMacrosVersion, b.fork, b.repo,
                           b.releaseType,
                           JoinWith(b.modLoader, <<" ">>),
                           JoinWith(b.extensions, <<" ">>),
                           FieldOrEmpty(b, "notes")>>, <<" ">>))

\* the haystack of the search in part_001, which also reads sourceUrl and
\* deprecated
Haystack001(b) ==
    ToLowerCase(JoinWith(<<b.mcVersion, b.jsMacrosVersion, b.fork, b.repo,
                           FieldOrEmpty(b, "sourceUrl"),
                           b.releaseType,
                           IF "deprecated" \in DOMAIN b /\ b.deprecated
                             THEN <<"d", "e", "p", "r", "e", "c", "a", "t", "e", "d">>
                             ELSE <<>>,
                           JoinWith(b.modLoader, <<" ">>),
                           JoinWith(b.extensions, <<" ">>),
                           FieldOrEmpty(b, "notes")>>, <<" ">>))

Haystack(rev, b) == IF rev = "part_000" THEN Haystack000(b) ELSE Haystack001(b)

\* a faulty SearchMatches: the query is compared as typed, not lowercased
SearchMatchesCaseSensitive(rev, b, text) ==
    LET term == Trim(text)
    IN  term = <<>> \/ Includes(Haystack(rev, b), term)

\* the filter callback of listResults
SearchMatches(rev, b, text) ==
    LET term == ToLowerCase(Trim(text))
    IN  term = <<>> \/ Includes(Haystack(rev, b), term)

\* a faulty ListCompare: jsMacrosVersion is compared with the dotted-numeric
\* comparator
ListCompareNumericJs(a, b, key, direction) ==
    LET factor == IF direction = "asc" THEN 1 ELSE -1
    IN  IF key = "publishedAt"
          THEN LET da == PublishedTime(a)
                   db == PublishedTime(b)
               IN  IF da.nan \/ db.nan THEN 0 ELSE (da.t - db.t) * factor
        ELSE IF key = "mcVersion"
          THEN compareVersions(a.mcVersion, b.mcVersion) * factor
        ELSE compareVersions(a.jsMacrosVersion, b.jsMacrosVersion) * factor

\* the comparator of listResults; sort reads a NaN result as 0
ListCompare(a, b, key, direction) ==
    LET factor == IF direction = "asc" THEN 1 ELSE -1
    IN  IF key = "publishedAt"
          THEN LET da == PublishedTime(a)
                   db == PublishedTime(b)
               IN  IF da.nan \/ db.nan THEN 0 ELSE (da.t - db.t) * factor
        ELSE IF key = "mcVersion"
          THEN compareVersions(a.mcVersion, b.mcVersion) * factor
        ELSE localeCompare(a.jsMacrosVersion, b.jsMacrosVersion) * factor

\* the values listResults can take
ListResults(rev, all, text, key, direction) ==
    LET Keep(b) == SearchMatches(rev, b, text)
        filtered == SelectSeq(all, Keep)
        c == [i \in 1..Len(filtered) |->
                [j \in 1..Len(filtered) |->
                    ListCompare(filtered[i], filtered[j], key, direction)]]
    IN  SortOutcomes(filtered, c)

(***************************************************************************)
(* Inputs of the view                                                      *)
(***************************************************************************)
Revisions == {"part_000", "part_001"}

\* the entry collections loadBuilds produces
Collections == {Flatten(m) : m \in VersionMappings}

\* the lists of required extensions the check boxes can build
RequiredLists ==
    UNION {DistinctSeqs(ExtensionNames, n) : n \in 0..MaxRequired}

SortKeys == {"publishedAt", "mcVersion", "jsMacrosVersion"}
SortDirections == {"asc", "desc"}

\* search texts: none, one in another case than the catalog's, one with a
\* blank in front, one that spans two adjacent fields, the deprecation
\* marker, one that occurs nowhere
SearchTexts ==
    { <<>>,
      <<"J", "S", "M">>,
      <<" ", "2", ".", "9">>,
      <<"m", " ", "b", "e", "t", "a">>,
      <<"d", "e", "p", "r", "e", "c", "a", "t", "e", "d">>,
      <<"z", "z">> }

(***************************************************************************)
(* The catalog validator (scripts/validate.ts, listed in PLAN.md)          *)
(***************************************************************************)
neoforge == <<"n", "e", "o", "f", "o", "r", "g", "e">>

platformEnum == {"fabric", "forge", "neoforge", "extension", "ts", "other", "python"}
loaderEnum == {fabric, forge, neoforge}
releaseTypeEnum == {release, beta, nightly}
statusEnum == {"supported", "deprecated", "experimental"}

\* one entry of result.error.errors: the path (the key of the version
\* group, the position of the Build in it, the field, the position inside
\* an array field; '' and 0 where the path has none) and the issue code
Issue(key, j, field, k, code) ==
    [group |-> key, index |-> j, field |-> field, sub |-> k, code |-> code]

\* a faulty StringMin: the text is trimmed before its length is taken
StringMinTrimmed(o, f, n, opt, key, j, path, k) ==
    IF f \notin DOMAIN o
      THEN IF opt THEN <<>> ELSE <<Issue(key, j, path, k, "invalid_type")>>
      ELSE IF Len(Trim(o[f])) < n
             THEN <<Issue(key, j, path, k, "too_small")>> ELSE <<>>

\* z.string().min(n) on field f of object o, .optional() when opt
StringMin(o, f, n, opt, key, j, path, k) ==
    IF f \notin DOMAIN o
      THEN IF opt THEN <<>> ELSE <<Issue(key, j, path, k, "invalid_type")>>
      ELSE IF Len(o[f]) < n THEN <<Issue(key, j, path, k, "too_small")>> ELSE <<>>

IsLetter(c) == \E i \in 1..26 : c = UpperCase[i] \/ c = LowerCase[i]

\* z.string().url(): new URL(text) does not throw.  A text with a scheme
\* (letters, then a colon) that is not one of the special schemes parses
\* whatever follows; the URLs of the model have the scheme h.
IsUrl(s) ==
    \E i \in 2..Len(s) : s[i] = ":" /\ \A h \in 1..(i - 1) : IsLetter(s[h])

\* /^\d{4}-\d{2}-\d{2}$/
MatchesDate(s) ==
    /\ Len(s) = 10
    /\ s[5] = "-" /\ s[8] = "-"
    /\ IsDigits(SubSeq(s, 1, 4))
    /\ IsDigits(SubSeq(s, 6, 7))
    /\ IsDigits(SubSeq(s, 9, 10))

RECURSIVE Concat(_)
Concat(seqs) == IF seqs = <<>> THEN <<>> ELSE Head(seqs) \o Concat(Tail(seqs))

\* the issues downloadSchema finds in download k of Build j of group key
\* (every download of the model names one platform, not an array of them)
downloadSchema(d, key, j, k) ==
    Concat(<<
      StringMin(d, "name", 1, FALSE, key, j, "downloads.name", k),
      IF "platform" \notin DOMAIN d
        THEN <<Issue(key, j, "downloads.platform", k, "invalid_type")>>
        ELSE IF d.platform \notin platformEnum
               THEN <<Issue(key, j, "downloads.platform", k, "invalid_union")>>
               ELSE <<>>,
      IF "url" \notin DOMAIN d
        THEN <<Issue(key, j, "downloads.url", k, "invalid_type")>>
        ELSE IF ~IsUrl(d.url)
               THEN <<Issue(key, j, "downloads.url", k, "invalid_string")>>
               ELSE <<>>,
      StringMin(d, "checksum", 1, TRUE, key, j, "downloads.checksum", k),
      StringMin(d, "notes", 1, TRUE, key, j, "downloads.notes", k) >>)

\* the issues buildSchema finds in Build j of group key
buildSchema(b, key, j) ==
    Concat(<<
      StringMin(b, "id", 1, FALSE, key, j, "id", 0),
      StringMin(b, "repo", 1, FALSE, key, j, "repo", 0),
      StringMin(b, "fork", 1, FALSE, key, j, "fork", 0),
      StringMin(b, "commit", 7, FALSE, key, j, "commit", 0),
      StringMin(b, "jsMacrosVersion", 1, FALSE, key, j, "jsMacrosVersion", 0),
      IF "modLoader" \notin DOMAIN b
        THEN <<Issue(key, j, "modLoader", 0, "invalid_type")>>
        ELSE (IF Len(b.modLoader) < 1
                THEN <<Issue(key, j, "modLoader", 0, "too_small")>> ELSE <<>>)
             \o Concat([k \in 1..Len(b.modLoader) |->
                  IF b.modLoader[k] \notin loaderEnum
                    THEN <<Issue(key, j, "modLoader", k, "invalid_enum_value")>>
                    ELSE <<>>]),
      IF "extensions" \notin DOMAIN b
        THEN <<Issue(key, j, "extensions", 0, "invalid_type")>>
        ELSE (IF Len(b.extensions) < 1
                THEN <<Issue(key, j, "extensions", 0, "too_small")>> ELSE <<>>)
             \o Concat([k \in 1..Len(b.extensions) |->
                  StringMin(b.extensions, k, 1, FALSE, key, j, "extensions", k)]),
      IF "downloads" \notin DOMAIN b
        THEN <<Issue(key, j, "downloads", 0, "invalid_type")>>
        ELSE (IF Len(b.downloads) < 1
                THEN <<Issue(key, j, "downloads", 0, "too_small")>> ELSE <<>>)
             \o Concat([k \in 1..Len(b.downloads) |->
                  downloadSchema(b.downloads[k], key, j, k)]),
      IF "releaseType" \notin DOMAIN b
        THEN <<Issue(key, j, "releaseType", 0, "invalid_type")>>
        ELSE IF b.releaseType \notin releaseTypeEnum
               THEN <<Issue(key, j, "releaseType", 0, "invalid_enum_value")>>
               ELSE <<>>,
      IF "status" \in DOMAIN b /\ b.status \notin statusEnum
        THEN <<Issue(key, j, "status", 0, "invalid_enum_value")>> ELSE <<>>,
      IF "publishedAt" \in DOMAIN b /\ ~MatchesDate(b.publishedAt)
        THEN <<Issue(key, j, "publishedAt", 0, "invalid_string")>> ELSE <<>>,
      StringMin(b, "notes", 1, TRUE, key, j, "notes", 0) >>)

\* result.error.errors of dataSchema.safeParse(parsed); empty on success
dataSchema(parsed) ==
    IF parsed = Null
      THEN <<Issue(<<>>, 0, "<root>", 0, "invalid_type")>>
      ELSE StringMin(parsed, "updatedAt", 1, FALSE, <<>>, 0, "updatedAt", 0)
           \o (IF "versions" \notin DOMAIN parsed
                 THEN <<Issue(<<>>, 0, "versions", 0, "invalid_type")>>
                 ELSE Concat([g \in 1..Len(parsed.versions) |->
                        Concat([j \in 1..Len(parsed.versions[g].arr) |->
                          buildSchema(parsed.versions[g].arr[j],
                                      parsed.versions[g].key, j)])]))

\* a faulty firstDuplicate: the set of the ids seen is emptied at the start
\* of every version group
RECURSIVE firstDuplicatePerGroup(_, _, _, _)
firstDuplicatePerGroup(versions, g, j, ids) ==
    IF g > Len(versions) THEN [found |-> FALSE]
    ELSE IF j > Len(versions[g].arr)
      THEN firstDuplicatePerGroup(versions, g + 1, 1, {})
    ELSE IF versions[g].arr[j].id \in ids
      THEN [found |-> TRUE, id |-> versions[g].arr[j].id,
            mcVersion |-> versions[g].key]
    ELSE firstDuplicatePerGroup(versions, g, j + 1,
                                ids \cup {versions[g].arr[j].id})

\* the two loops over Object.entries(result.data.versions) and the Builds
\* of each group, from Build j of group g on, ids being the ids seen so far
RECURSIVE firstDuplicate(_, _, _, _)
firstDuplicate(versions, g, j, ids) ==
    IF g > Len(versions) THEN [found |-> FALSE]
    ELSE IF j > Len(versions[g].arr)
      THEN firstDuplicate(versions, g + 1, 1, ids)
    ELSE IF versions[g].arr[j].id \in ids
      THEN [found |-> TRUE, id |-> versions[g].arr[j].id,
            mcVersion |-> versions[g].key]
    ELSE firstDuplicate(versions, g, j + 1, ids \cup {versions[g].arr[j].id})

\* a faulty main: the exit status is not set when a duplicate id is found
mainDuplicateExitsZero(inv) ==
    IF inv.kind = "noArgument"
      THEN [exitCode |-> 1, stderr |-> <<[line |-> "usage"]>>, stdout |-> <<>>]
    ELSE IF inv.kind \in {"unreadable", "badJson"}
      THEN [exitCode |-> 1,
            stderr |-> <<[line |-> "thrown", error |-> inv.error]>>,
            stdout |-> <<>>]
    ELSE LET errors == dataSchema(inv.parsed)
         IN  IF errors # <<>>
               THEN [exitCode |-> 1,
                     stderr |-> <<[line |-> "failed"]>>
                                  \o [i \in 1..Len(errors) |->
                                        [line |-> "issue", issue |-> errors[i]]],
                     stdout |-> <<>>]
             ELSE LET dup == firstDuplicate(inv.parsed.versions, 1, 1, {})
                  IN  IF dup.found
                        THEN [exitCode |-> 0,
                              stderr |-> <<[line |-> "duplicate", id |-> dup.id,
                                            mcVersion |-> dup.mcVersion]>>,
                              stdout |-> <<>>]
                        ELSE [exitCode |-> 0, stderr |-> <<>>,
                              stdout |-> <<[line |-> "valid"]>>]

\* one run of the validator: the exit status of the process and the lines
\* written to the error stream and to the output.  What readFile or
\* JSON.parse throws rejects main(), and the catch handler reports it.
main(inv) ==
    IF inv.kind = "noArgument"
      THEN [exitCode |-> 1, stderr |-> <<[line |-> "usage"]>>, stdout |-> <<>>]
    ELSE IF inv.kind \in {"unreadable", "badJson"}
      THEN [exitCode |-> 1,
            stderr |-> <<[line |-> "thrown", error |-> inv.error]>>,
            stdout |-> <<>>]
    ELSE LET errors == dataSchema(inv.parsed)
         IN  IF errors # <<>>
               THEN [exitCode |-> 1,
                     stderr |-> <<[line |-> "failed"]>>
                                  \o [i \in 1..Len(errors) |->
                                        [line |-> "issue", issue |-> errors[i]]],
                     stdout |-> <<>>]
             ELSE LET dup == firstDuplicate(inv.parsed.versions, 1, 1, {})
                  IN  IF dup.found
                        THEN [exitCode |-> 1,
                              stderr |-> <<[line |-> "duplicate", id |-> dup.id,
                                            mcVersion |-> dup.mcVersion]>>,
                              stdout |-> <<>>]
                        ELSE [exitCode |-> 0, stderr |-> <<>>,
                              stdout |-> <<[line |-> "valid"]>>]

(***************************************************************************)
(* Inputs of the validator                                                 *)
(***************************************************************************)
blank == <<" ">>

ValDownload ==
    [name |-> <<"a">>, platform |-> "fabric", url |-> <<"h", ":", "/", "/", "s">>]

ValDownloadFull ==
    [name |-> <<"a">>, platform |-> "python", url |-> <<"h", ":", "/", "/", "s">>,
     checksum |-> <<"c">>, notes |-> <<"n">>]

\* Builds the schema accepts: two with the id a that differ in every other
\* respect, one with the id b
ValBuildA ==
    [id |-> <<"a">>, repo |-> <<"r">>, fork |-> <<"f">>,
     commit |-> <<"a", "b", "c", "d", "e", "f", "1">>,
     jsMacrosVersion |-> <<"1">>, modLoader |-> <<fabric>>,
     extensions |-> <<js>>, downloads |-> <<ValDownload>>,
     releaseType |-> release]

ValBuildA2 ==
    [id |-> <<"a">>, repo |-> <<"q">>, fork |-> <<"g">>,
     commit |-> <<"a", "b", "c", "d", "e", "f", "2">>,
     jsMacrosVersion |-> <<"2">>, modLoader |-> <<forge, neoforge>>,
     extensions |-> <<luaj, js>>, downloads |-> <<ValDownloadFull>>,
     releaseType |-> beta, status |-> "supported",
     publishedAt |-> <<"2", "0", "2", "4", "-", "1", "2", "-", "1", "0">>,
     notes |-> <<"N", "e", "w">>]

ValBuildB == [ValBuildA EXCEPT !.id = <<"b">>]

ValBuilds == {ValBuildA, ValBuildA2, ValBuildB}

\* a Build with one string field empty or blank
BlankStringDefects(b) ==
    UNION { { [b EXCEPT !.id = t], [b EXCEPT !.repo = t], [b EXCEPT !.fork = t],
              [b EXCEPT !.jsMacrosVersion = t],
              ("notes" :> t) @@ b,
              [b EXCEPT !.extensions = <<t>>],
              [b EXCEPT !.downloads = <<[ValDownload EXCEPT !.name = t]>>],
              [b EXCEPT !.downloads = <<("checksum" :> t) @@ ValDownload>>],
              [b EXCEPT !.downloads = <<("notes" :> t) @@ ValDownload>>] } :
            t \in {<<>>, blank} }

\* a Build with one other departure from the schema
OtherDefects(b) ==
    { [f \in DOMAIN b \ {"id"} |-> b[f]],
      [b EXCEPT !.commit = <<"a", "b", "c", "d", "e", "f">>],
      [b EXCEPT !.modLoader = <<>>],
      [b EXCEPT !.modLoader = <<fabric, <<"q">>>>],
      [b EXCEPT !.extensions = <<>>],
      [b EXCEPT !.downloads = <<>>],
      [b EXCEPT !.downloads = <<[ValDownload EXCEPT !.platform = "bukkit"]>>],
      [b EXCEPT !.downloads = <<[ValDownload EXCEPT !.url = <<"s">>]>>],
      [b EXCEPT !.releaseType = <<"r", "c">>],
      ("status" :> "old") @@ b,
      ("publishedAt" :> <<"2", "0", "2", "4", "-", "1", "-", "0", "1">>) @@ b }

Defects(b) == BlankStringDefects(b) \cup OtherDefects(b)

\* version mappings of Builds the schema accepts; ids may repeat
ValMappings ==
    UNION { UNION { UNION {
        { [i \in 1..Len(cut) |-> [key |-> ks[i], arr |-> cut[i]]] :
            ks \in DistinctSeqs(McVersions, Len(cut)) } :
        cut \in Cuts(q) } :
        q \in [1..n -> ValBuilds] } : n \in 0..MaxBuilds }

\* the smaller of them with one Build replaced by a defective one
DefectiveMappings ==
    UNION { UNION { UNION {
        { [m EXCEPT ![g].arr[j] = d] : d \in Defects(m[g].arr[j]) } :
        j \in 1..Len(m[g].arr) } :
        g \in 1..Len(m) } :
        m \in {v \in ValMappings : SumLens(v) <= MaxDefectBuilds} }

\* what JSON.parse returns: null, catalogs with a good, an empty, a blank or
\* no updatedAt, a payload without versions, catalogs with a defective Build
ParsedPayloads ==
    { Null, [updatedAt |-> <<"2", "0", "2", "5">>] }
      \cup { [updatedAt |-> u, versions |-> m] :
               u \in {<<"2", "0", "2", "5">>, <<>>, blank}, m \in ValMappings }
      \cup { [versions |-> m] : m \in ValMappings }
      \cup { [updatedAt |-> <<"2", "0", "2", "5">>, versions |-> m] :
               m \in DefectiveMappings }

\* the runs of the validator: no file argument, a file that cannot be read,
\* a file that is not JSON, a file that parses
Invocations ==
    { [kind |-> "noArgument"],
      [kind |-> "unreadable", error |-> "ENOENT"],
      [kind |-> "badJson", error |-> "SyntaxError"] }
      \cup { [kind |-> "parsed", parsed |-> p] : p \in ParsedPayloads }

VARIABLES
    verA,        \* first argument of the comparison in progress
    verB,        \* second argument
    cmpDone,     \* TRUE once compareVersions(verA, verB) has returned
    cmpResult,   \* the value it returned
    verC,        \* a third version, compared with the two others
    cmpChain,    \* compareVersions(verB, verC) and compareVersions(verA, verC)
    response,    \* what the fetch of the catalog produces
    loadDone,    \* TRUE once the promise of loadBuilds has resolved
    loadResult,  \* the value it resolved to
    revision,           \* which revision of App runs
    builds,             \* useState: the entry collection
    selectedMcVersion,  \* useState: '' is the 'Any' selection
    selectedLoader,     \* useState: '' is the 'Any' selection
    extensionFilters,   \* useState: the required extensions
    search,             \* useState
    sortKey,            \* useState
    sortDirection,      \* useState
    rendered,           \* TRUE once the memoized value has been computed
    guideResults,       \* useMemo
    listResults,        \* useMemo
    invocation,  \* the run of the validator
    validated,   \* TRUE once main() has settled
    exitCode,    \* process.exitCode, 0 while it is not set
    stderr,      \* the lines written with console.error
    stdout,      \* the lines written with console.log
    facetValues,     \* the array facets are extracted from
    facetDirection,  \* the direction given to sortVersions
    facetDone,       \* TRUE once both functions have returned
    facetUnique,     \* what uniqueSorted returned
    facetVersions,   \* what sortVersions returned
    tab,         \* useState: 'guide' or 'list'
    loading,     \* useState
    error,       \* useState: undefined, or a record with the message
    updatedAt,   \* useState
    mcVersions,  \* useMemo: the version facet
    loaders,     \* useMemo: the loader facet
    extensions   \* useMemo: the extension facet

cmpVars == <<verA, verB, cmpDone, cmpResult, verC, cmpChain>>
loadVars == <<response, loadDone, loadResult>>
guideInputs == <<selectedMcVersion, selectedLoader, extensionFilters>>
listInputs == <<search, sortKey, sortDirection>>
shellVars == <<tab, loading, error, updatedAt, mcVersions, loaders, extensions>>
viewVars == <<revision, builds, guideInputs, listInputs, rendered,
              guideResults, listResults, shellVars>>
valVars == <<invocation, validated, exitCode, stderr, stdout>>
facetVars == <<facetValues, facetDirection, facetDone, facetUnique,
               facetVersions>>
vars == <<cmpVars, loadVars, viewVars, valVars, facetVars>>

\* JavaScript's undefined
Undefined == [undefined |-> TRUE]

\* the remaining state of App as it is constructed
ShellIdle ==
    /\ tab = "guide"
    /\ loading = TRUE
    /\ error = Undefined
    /\ updatedAt = ""
    /\ mcVersions = <<>>
    /\ loaders = <<>>
    /\ extensions = <<>>

\* the view as App constructs it
ViewIdle ==
    /\ ShellIdle
    /\ revision = "part_001"
    /\ builds = <<>>
    /\ selectedMcVersion = <<>>
    /\ selectedLoader = <<>>
    /\ extensionFilters = <<>>
    /\ search = <<>>
    /\ sortKey = "publishedAt"
    /\ sortDirection = "desc"
    /\ rendered = FALSE
    /\ guideResults = <<>>
    /\ listResults = <<>>

NoChain == [bc |-> 0, ac |-> 0]

CmpIdle ==
    /\ verA = <<>>
    /\ verB = <<>>
    /\ cmpDone = FALSE
    /\ cmpResult = 0
    /\ verC = <<>>
    /\ cmpChain = NoChain

LoadIdle ==
    /\ response = [kind |-> "rejected", message |-> "Failed to fetch"]
    /\ loadDone = FALSE
    /\ loadResult = [data |-> Null, builds |-> <<>>]

ValIdle ==
    /\ invocation = [kind |-> "noArgument"]
    /\ validated = FALSE
    /\ exitCode = 0
    /\ stderr = <<>>
    /\ stdout = <<>>

FacetIdle ==
    /\ facetValues = <<>>
    /\ facetDirection = "asc"
    /\ facetDone = FALSE
    /\ facetUnique = <<>>
    /\ facetVersions = <<>>

CmpInit ==
    /\ verA \in VersionStrings
    /\ verB \in VersionStrings
    /\ cmpDone = FALSE
    /\ cmpResult = 0
    /\ verC = <<>>
    /\ cmpChain = NoChain
    /\ LoadIdle
    /\ ViewIdle
    /\ ValIdle
    /\ FacetIdle

Compare ==
    /\ ~cmpDone
    /\ cmpDone' = TRUE
    /\ cmpResult' = compareVersions(verA, verB)
    /\ UNCHANGED <<verA, verB, verC, cmpChain, loadVars, viewVars, valVars,
                   facetVars>>

CmpNext == Compare

SpecCmp == CmpInit /\ [][CmpNext]_vars

(***************************************************************************)
(* Specification of compareVersions over three versions: the comparator is *)
(* applied to each of the pairs (verA, verB), (verB, verC), (verA, verC),  *)
(* as a sort does with the elements it orders.                             *)
(***************************************************************************)
ChainInit ==
    /\ verA \in ChainStrings
    /\ verB \in ChainStrings
    /\ verC \in ChainStrings
    /\ cmpDone = FALSE
    /\ cmpResult = 0
    /\ cmpChain = NoChain
    /\ LoadIdle
    /\ ViewIdle
    /\ ValIdle
    /\ FacetIdle

CompareChain ==
    /\ ~cmpDone
    /\ cmpDone' = TRUE
    /\ cmpResult' = compareVersions(verA, verB)
    /\ cmpChain' = [bc |-> compareVersions(verB, verC),
                    ac |-> compareVersions(verA, verC)]
    /\ UNCHANGED <<verA, verB, verC, loadVars, viewVars, valVars, facetVars>>

ChainNext == CompareChain

SpecChain == ChainInit /\ [][ChainNext]_vars

(***************************************************************************)
(* Specification of loadBuilds: the fetch produces some response, and the  *)
(* promise resolves                                                        *)
(***************************************************************************)
LoadInit ==
    /\ response \in Responses
    /\ loadDone = FALSE
    /\ loadResult = [data |-> Null, builds |-> <<>>]
    /\ CmpIdle
    /\ ViewIdle
    /\ ValIdle
    /\ FacetIdle

LoadResolve ==
    /\ ~loadDone
    /\ loadDone' = TRUE
    /\ loadResult' = loadBuilds(response)
    /\ UNCHANGED <<response, cmpVars, viewVars, valVars, facetVars>>

LoadNext == LoadResolve

SpecLoad == LoadInit /\ [][LoadNext]_vars

(***************************************************************************)
(* Specification of guideResults: some entry collection and some guide     *)
(* selection, and the memoized value is computed                           *)
(***************************************************************************)
GuideInit ==
    /\ revision \in Revisions
    /\ builds \in Collections
    /\ selectedMcVersion \in {<<>>} \cup McVersions
    /\ selectedLoader \in {<<>>} \cup Loaders
    /\ extensionFilters \in RequiredLists
    /\ search = <<>>
    /\ sortKey = "publishedAt"
    /\ sortDirection = "desc"
    /\ rendered = FALSE
    /\ guideResults = <<>>
    /\ listResults = <<>>
    /\ ShellIdle
    /\ CmpIdle
    /\ LoadIdle
    /\ ValIdle
    /\ FacetIdle

RenderGuide ==
    /\ ~rendered
    /\ rendered' = TRUE
    /\ guideResults' \in GuideResults(revision, builds, selectedMcVersion,
                                      selectedLoader, extensionFilters)
    /\ UNCHANGED <<revision, builds, guideInputs, listInputs, listResults,
                   shellVars, cmpVars, loadVars, valVars, facetVars>>

GuideNext == RenderGuide

SpecGuide == GuideInit /\ [][GuideNext]_vars

(***************************************************************************)
(* Specification of listResults: some entry collection, search text, sort  *)
(* key and direction, and the memoized value is computed                   *)
(***************************************************************************)
ListInit ==
    /\ revision \in Revisions
    /\ builds \in Collections
    /\ selectedMcVersion = <<>>
    /\ selectedLoader = <<>>
    /\ extensionFilters = <<>>
    /\ search \in SearchTexts
    /\ sortKey \in SortKeys
    /\ sortDirection \in SortDirections
    /\ rendered = FALSE
    /\ guideResults = <<>>
    /\ listResults = <<>>
    /\ ShellIdle
    /\ CmpIdle
    /\ LoadIdle
    /\ ValIdle
    /\ FacetIdle

RenderList ==
    /\ ~rendered
    /\ rendered' = TRUE
    /\ listResults' \in ListResults(revision, builds, search, sortKey,
                                    sortDirection)
    /\ UNCHANGED <<revision, builds, guideInputs, listInputs, guideResults,
                   shellVars, cmpVars, loadVars, valVars, facetVars>>

ListNext == RenderList

SpecList == ListInit /\ [][ListNext]_vars

(***************************************************************************)
(* Specification of the validator: some run, and main() settles            *)
(***************************************************************************)
ValInit ==
    /\ invocation \in Invocations
    /\ validated = FALSE
    /\ exitCode = 0
    /\ stderr = <<>>
    /\ stdout = <<>>
    /\ CmpIdle
    /\ LoadIdle
    /\ ViewIdle
    /\ FacetIdle

Validate ==
    /\ ~validated
    /\ validated' = TRUE
    /\ exitCode' = main(invocation).exitCode
    /\ stderr' = main(invocation).stderr
    /\ stdout' = main(invocation).stdout
    /\ UNCHANGED <<invocation, cmpVars, loadVars, viewVars, facetVars>>

ValNext == Validate

SpecValidate == ValInit /\ [][ValNext]_vars

(***************************************************************************)
(* Specification of the facet extraction: some array of values and some    *)
(* direction, and uniqueSorted and sortVersions return                     *)
(***************************************************************************)
FacetInit ==
    /\ facetValues \in FacetInputs
    /\ facetDirection \in SortDirections
    /\ facetDone = FALSE
    /\ facetUnique = <<>>
    /\ facetVersions = <<>>
    /\ CmpIdle
    /\ LoadIdle
    /\ ViewIdle
    /\ ValIdle

\* both functions copy the array into a Set and sort the copy
ExtractFacets ==
    /\ ~facetDone
    /\ facetDone' = TRUE
    /\ facetUnique' \in uniqueSorted(facetValues)
    /\ facetVersions' \in sortVersions(facetValues, facetDirection)
    /\ UNCHANGED <<facetValues, facetDirection, cmpVars, loadVars, viewVars,
                   valVars>>

FacetNext == ExtractFacets

SpecFacet == FacetInit /\ [][FacetNext]_vars

(***************************************************************************)
(* App: the state of the view, the load started at mount, and the event    *)
(* handlers.  The updates a handler makes are applied together and the     *)
(* view renders once after them; a step is the handler with that render.   *)
(***************************************************************************)
\* the catalogs the view is run on: three entries of two versions, the
\* older version first, one entry undated and one with a day that is no
\* date; the same entries the other way round; no entry at all
AppMappings ==
    { << [key |-> <<"2", ".", "9">>, arr |-> <<Build2, Build5>>],
         [key |-> <<"2", ".", "1", "0">>, arr |-> <<Build1>>] >>,
      << [key |-> <<"2", ".", "1", "0">>, arr |-> <<Build4>>],
         [key |-> <<"2", ".", "9">>, arr |-> <<Build3, Build2>>] >>,
      <<>> }

AppResponses ==
    { r \in Responses :
        r.kind = "ok" => ("versions" \in DOMAIN r.json
                            => r.json.versions \in AppMappings) }

\* the texts typed into the search box
AppSearchTexts == { <<>>, <<"J", "S", "M">>, <<"z", "z">> }

Tabs == {"guide", "list"}

\* loaded.map((b) => b.mcVersion)
McVersionsOf(all) == [i \in 1..Len(all) |-> all[i].mcVersion]

\* builds.flatMap((b) => b.modLoader)
LoadersOf(all) == Concat([i \in 1..Len(all) |-> all[i].modLoader])

\* builds.flatMap((b) => b.extensions)
ExtensionsOf(all) == Concat([i \in 1..Len(all) |-> all[i].extensions])

\* a faulty LatestVersion: the last element of the sorted versions
OldestVersion(loaded) ==
    { IF mv = <<>> THEN <<>> ELSE mv[Len(mv)] :
        mv \in sortVersions(McVersionsOf(loaded), "desc") }

\* sortVersions(loaded.map(...), 'desc')[0] ?? ''
LatestVersion(loaded) ==
    { IF mv = <<>> THEN <<>> ELSE mv[1] :
        mv \in sortVersions(McVersionsOf(loaded), "desc") }

\* a faulty GuideDeps: the search text is a dependency too
GuideDepsWithSearch ==
    <<builds, selectedLoader, selectedMcVersion, extensionFilters, search>>

\* the dependencies of the useMemo of guideResults
GuideDeps == <<builds, selectedLoader, selectedMcVersion, extensionFilters>>

\* the dependencies of the useMemo of listResults
ListDeps == <<builds, search, sortKey, sortDirection>>

\* The render after a change of state: a useMemo whose dependencies
\* changed computes its value anew, the others keep theirs.  newBuilds
\* tells that setBuilds was given a new array.
Rerender(newBuilds) ==
    /\ IF newBuilds
         THEN /\ mcVersions' \in sortVersions(McVersionsOf(builds'), "desc")
              /\ loaders' \in uniqueSorted(LoadersOf(builds'))
              /\ extensions' \in uniqueSorted(ExtensionsOf(builds'))
         ELSE UNCHANGED <<mcVersions, loaders, extensions>>
    /\ IF newBuilds \/ GuideDeps' # GuideDeps
         THEN guideResults' \in GuideResults(revision, builds', selectedMcVersion',
                                             selectedLoader', extensionFilters')
         ELSE UNCHANGED guideResults
    /\ IF newBuilds \/ ListDeps' # ListDeps
         THEN listResults' \in ListResults(revision, builds', search', sortKey',
                                           sortDirection')
         ELSE UNCHANGED listResults

\* App is mounted: the first render has run and loadBuilds() is pending
Init ==
    /\ revision \in Revisions
    /\ response \in AppResponses
    /\ loadDone = FALSE
    /\ loadResult = [data |-> Null, builds |-> <<>>]
    /\ tab = "guide"
    /\ loading = TRUE
    /\ error = Undefined
    /\ builds = <<>>
    /\ updatedAt = ""
    /\ selectedMcVersion = <<>>
    /\ selectedLoader = <<>>
    /\ extensionFilters = <<>>
    /\ search = <<>>
    /\ sortKey = "publishedAt"
    /\ sortDirection = "desc"
    /\ rendered = TRUE
    /\ mcVersions = <<>>
    /\ loaders = <<>>
    /\ extensions = <<>>
    /\ guideResults = <<>>
    /\ listResults = <<>>
    /\ CmpIdle
    /\ ValIdle
    /\ FacetIdle

\* a faulty LoadSettled: setLoading(false) is not called
LoadSettledStillLoading ==
    /\ ~loadDone
    /\ loadDone' = TRUE
    /\ loadResult' = loadBuilds(response)
    /\ LET r == loadBuilds(response)
       IN  /\ error' = IF "error" \in DOMAIN r /\ NonEmptyText(r.error)
                         THEN [message |-> r.error] ELSE error
           /\ updatedAt' = IF r.data # Null THEN r.data.updatedAt ELSE updatedAt
           /\ builds' = r.builds
           /\ selectedMcVersion' \in LatestVersion(r.builds)
    /\ UNCHANGED <<revision, response, tab, loading, selectedLoader,
                   extensionFilters, listInputs, rendered, cmpVars, valVars,
                   facetVars>>
    /\ Rerender(TRUE)

\* the callback given to loadBuilds().then.  part_000 sets the selected
\* version only when none is selected and something was loaded; the
\* selection it reads is that of the first render, which is still the
\* selection, the controls being hidden while loading.
LoadSettled ==
    /\ ~loadDone
    /\ loadDone' = TRUE
    /\ loadResult' = loadBuilds(response)
    /\ LET r == loadBuilds(response)
       IN  /\ error' = IF "error" \in DOMAIN r /\ NonEmptyText(r.error)
                         THEN [message |-> r.error] ELSE error
           /\ updatedAt' = IF r.data # Null THEN r.data.updatedAt ELSE updatedAt
           /\ builds' = r.builds
           /\ loading' = FALSE
           /\ IF revision = "part_001"
                   \/ (selectedMcVersion = <<>> /\ Len(r.builds) # 0)
                THEN selectedMcVersion' \in LatestVersion(r.builds)
                ELSE UNCHANGED selectedMcVersion
    /\ UNCHANGED <<revision, response, tab, selectedLoader, extensionFilters,
                   listInputs, rendered, cmpVars, valVars, facetVars>>
    /\ Rerender(TRUE)

\* what no event handler touches
Fixed == <<revision, loadVars, rendered, cmpVars, valVars, facetVars>>

\* onClick of a tab button
SetTab(t) ==
    /\ tab' = t
    /\ UNCHANGED <<Fixed, loading, error, updatedAt, builds, guideInputs,
                   listInputs>>
    /\ Rerender(FALSE)

\* onChange of the version select; its options are Any and mcVersions
SelectVersion(v) ==
    /\ ~loading /\ tab = "guide"
    /\ v = <<>> \/ ArrayIncludes(mcVersions, v)
    /\ selectedMcVersion' = v
    /\ UNCHANGED <<Fixed, tab, loading, error, updatedAt, builds, selectedLoader,
                   extensionFilters, listInputs>>
    /\ Rerender(FALSE)

\* onChange of the loader select; its options are Any and loaders
SelectLoader(l) ==
    /\ ~loading /\ tab = "guide"
    /\ l = <<>> \/ ArrayIncludes(loaders, l)
    /\ selectedLoader' = l
    /\ UNCHANGED <<Fixed, tab, loading, error, updatedAt, builds,
                   selectedMcVersion, extensionFilters, listInputs>>
    /\ Rerender(FALSE)

\* a faulty ToggleExtension: the extension is appended whether the box
\* was checked or not
ToggleExtensionAppending(ext) ==
    /\ ~loading /\ tab = "guide"
    /\ ArrayIncludes(extensions, ext)
    /\ extensionFilters' = Append(extensionFilters, ext)
    /\ UNCHANGED <<Fixed, tab, loading, error, updatedAt, builds,
                   selectedMcVersion, selectedLoader, listInputs>>
    /\ Rerender(FALSE)

\* onChange of the check box of an extension: checking it appends the
\* extension, unchecking it filters it out
ToggleExtension(ext) ==
    /\ ~loading /\ tab = "guide"
    /\ ArrayIncludes(extensions, ext)
    /\ extensionFilters' =
          IF ~ArrayIncludes(extensionFilters, ext)
            THEN Append(extensionFilters, ext)
            ELSE LET Other(x) == x # ext IN SelectSeq(extensionFilters, Other)
    /\ UNCHANGED <<Fixed, tab, loading, error, updatedAt, builds,
                   selectedMcVersion, selectedLoader, listInputs>>
    /\ Rerender(FALSE)

\* onChange of the search box
SetSearch(text) ==
    /\ ~loading /\ tab = "list"
    /\ search' = text
    /\ UNCHANGED <<Fixed, tab, loading, error, updatedAt, builds, guideInputs,
                   sortKey, sortDirection>>
    /\ Rerender(FALSE)

\* a faulty SetSortKey: the collection itself is sorted
SetSortKeySortingBuilds(k) ==
    /\ ~loading /\ tab = "list"
    /\ sortKey' = k
    /\ builds' \in ListResults(revision, builds, <<>>, k, sortDirection)
    /\ UNCHANGED <<Fixed, tab, loading, error, updatedAt, guideInputs,
                   search, sortDirection>>
    /\ Rerender(TRUE)

\* onChange of the sort-key select
SetSortKey(k) ==
    /\ ~loading /\ tab = "list"
    /\ sortKey' = k
    /\ UNCHANGED <<Fixed, tab, loading, error, updatedAt, builds, guideInputs,
                   search, sortDirection>>
    /\ Rerender(FALSE)

\* onChange of the sort-direction select
SetSortDirection(d) ==
    /\ ~loading /\ tab = "list"
    /\ sortDirection' = d
    /\ UNCHANGED <<Fixed, tab, loading, error, updatedAt, builds, guideInputs,
                   search, sortKey>>
    /\ Rerender(FALSE)

Next ==
    \/ LoadSettled
    \/ \E t \in Tabs : SetTab(t)
    \/ \E v \in {<<>>} \cup McVersions : SelectVersion(v)
    \/ \E l \in {<<>>} \cup Loaders : SelectLoader(l)
    \/ \E ext \in ExtensionNames : ToggleExtension(ext)
    \/ \E text \in AppSearchTexts : SetSearch(text)
    \/ \E k \in SortKeys : SetSortKey(k)
    \/ \E d \in SortDirections : SetSortDirection(d)

Spec == Init /\ [][Next]_vars

(***************************************************************************)
(* Properties of compareVersions (specification SpecCmp)                   *)
(***************************************************************************)
Sign(n) == IF n > 0 THEN 1 ELSE IF n < 0 THEN -1 ELSE 0

\* positions at which the numeric components differ, a missing one read as 0
DifferAt(ap, bp) ==
    {i \in 1..Max(Len(ap), Len(bp)) : PartAt(ap, i) # PartAt(bp, i)}

\* the version string with every non-numeric component replaced by "0"
ZeroNonNumeric(s) ==
    LET p == SplitDots(s)
    IN  JoinWith([i \in 1..Len(p) |->
                    IF NumberIsNaN(p[i]) THEN <<"0">> ELSE p[i]], <<".">>)

\* C1: compareVersions(a, b) = -compareVersions(b, a) for all version
\* strings a and b, and compareVersions(a, a) = 0.
C1_Antisymmetric ==
    cmpDone =>
        /\ cmpResult = 0 - compareVersions(verB, verA)
        /\ compareVersions(verA, verA) = 0

C1_Witness == cmpDone /\ cmpResult < 0 /\ compareVersions(verB, verA) > 0

\* the two comparisons the text gives as examples of a numeric comparison
NumericExamples ==
    /\ compareVersions(<<"2", ".", "1", "0">>, <<"2", ".", "9">>) > 0
    /\ compareVersions(<<"1", ".", "1", "9", ".", "1">>,
                       <<"1", ".", "2", "1", ".", "1">>) < 0

\* C2: the sign of compareVersions(a, b) is the sign of the difference of
\* the numeric components at the leftmost position where they differ, a
\* non-numeric or missing component counting as 0; the comparison is
\* numeric, not textual ("2.10" > "2.9", "1.19.1" < "1.21.1"), and a
\* non-numeric component compares exactly like 0 in the same position.
C2_LeftmostDifference ==
    /\ NumericExamples
    /\ cmpDone =>
        LET ap == VersionParts(verA)
            bp == VersionParts(verB)
            d  == DifferAt(ap, bp)
        IN  /\ d # {} =>
                LET i == CHOOSE j \in d : \A k \in d : j <= k
                IN  Sign(cmpResult) = Sign(PartAt(ap, i) - PartAt(bp, i))
            /\ cmpResult = compareVersions(ZeroNonNumeric(verA), verB)
            /\ cmpResult = compareVersions(verA, ZeroNonNumeric(verB))

\* "9.10" against "9.9": numerically larger, textually smaller
C2_Witness ==
    /\ cmpDone
    /\ verA = <<"9", ".", "1", "0">>
    /\ verB = <<"9", ".", "9">>
    /\ cmpResult > 0

\* a has fewer components than b and the shared ones are numerically equal
ShorterPrefix(a, b) ==
    LET ap == VersionParts(a)
        bp == VersionParts(b)
    IN  /\ Len(ap) < Len(bp)
        /\ \A i \in 1..Len(ap) : ap[i] = bp[i]

\* C3 as stated: whenever a has fewer components than b and the shared
\* components are numerically equal, compareVersions(a, b) < 0.
C3_ShorterFirst_Original ==
    (cmpDone /\ ShorterPrefix(verA, verB)) => cmpResult < 0

\* C3 (amended): whenever a has fewer components than b, the shared
\* components are numerically equal and none of the additional components
\* of b is a negative number, compareVersions(a, b) < 0.
C3_ShorterFirst ==
    (/\ cmpDone
     /\ ShorterPrefix(verA, verB)
     /\ \A i \in (Len(VersionParts(verA)) + 1)..Len(VersionParts(verB)) :
            VersionParts(verB)[i] >= 0)
        => cmpResult < 0

\* "9" against "9.0": equal where shared, decided by the length alone
C3_Witness ==
    /\ cmpDone
    /\ verA = <<"9">>
    /\ verB = <<"9", ".", "0">>
    /\ cmpResult < 0

(***************************************************************************)
(* Properties of compareVersions as an ordering (specification SpecChain)  *)
(***************************************************************************)
\* the two versions have the same number of components and numerically
\* equal components in every position
SameComponents(a, b) ==
    LET ap == VersionParts(a)
        bp == VersionParts(b)
    IN  /\ Len(ap) = Len(bp)
        /\ \A i \in 1..Len(ap) : ap[i] = bp[i]

\* C22: compareVersions is a consistent ordering: whenever
\* compareVersions(a, b) <= 0 and compareVersions(b, c) <= 0, also
\* compareVersions(a, c) <= 0; and compareVersions(a, b) = 0 exactly when
\* a and b have the same number of components and numerically equal
\* components in every position, whether or not they are the same string.
C22_ConsistentOrdering ==
    cmpDone =>
        /\ (cmpResult <= 0 /\ cmpChain.bc <= 0) => cmpChain.ac <= 0
        /\ (cmpResult = 0) <=> SameComponents(verA, verB)
        /\ (cmpChain.bc = 0) <=> SameComponents(verB, verC)
        /\ (cmpChain.ac = 0) <=> SameComponents(verA, verC)

\* "a" and "0" compare equal without being the same string, "0" sorts
\* before "0.0" by its number of components, and so does "a"
C22_Witness ==
    /\ cmpDone
    /\ verA = <<"a">>
    /\ verB = <<"0">>
    /\ verC = <<"0", ".", "0">>
    /\ cmpResult = 0
    /\ cmpChain.bc < 0
    /\ cmpChain.ac < 0

(***************************************************************************)
(* Properties of loadBuilds (specification SpecLoad)                       *)
(***************************************************************************)
\* C10: on a successful load the flattening yields exactly one
\* EnrichedBuild per Build of the catalog (as many as the group sizes sum
\* to), each tagged with the key of its group and with every Build field
\* unchanged, group by group in the order of the mapping and, within a
\* group, in the order of the group.
C10_FlattenTagsEveryBuild ==
    (loadDone /\ response.kind = "ok" /\ "versions" \in DOMAIN response.json) =>
        LET groups == response.json.versions
            out    == loadResult.builds
        IN  /\ Len(out) = SumLens(groups)
            /\ \A g \in 1..Len(groups) : \A j \in 1..Len(groups[g].arr) :
                 LET e == out[SumLens(SubSeq(groups, 1, g - 1)) + j]
                     b == groups[g].arr[j]
                 IN  /\ e.mcVersion = groups[g].key
                     /\ DOMAIN e = DOMAIN b \cup {"mcVersion"}
                     /\ \A f \in DOMAIN b : e[f] = b[f]

\* two groups, each of whose Builds carries the key of its own group
C10_Witness ==
    /\ loadDone
    /\ response.kind = "ok"
    /\ "versions" \in DOMAIN response.json
    /\ Len(response.json.versions) = 2
    /\ Len(loadResult.builds) >= 2
    /\ loadResult.builds[1].mcVersion
          # loadResult.builds[Len(loadResult.builds)].mcVersion

\* C11: loadBuilds never throws or rejects: every failure (a response that
\* is not 2xx, a network failure, a body that is not JSON, a payload whose
\* shape makes the flattening fail) resolves to a result with data = null,
\* no builds and a non-empty error message; every success resolves to a
\* result with the parsed payload as data and no error field.
C11_NeverRejects ==
    loadDone =>
        /\ {"data", "builds"} \subseteq DOMAIN loadResult
        /\ DOMAIN loadResult \subseteq {"data", "builds", "error"}
        /\ response.kind # "ok" =>
              /\ loadResult.data = Null
              /\ loadResult.builds = <<>>
              /\ "error" \in DOMAIN loadResult
              /\ NonEmptyText(loadResult.error)
        /\ response.kind = "ok" =>
              /\ loadResult.data = response.json
              /\ "error" \notin DOMAIN loadResult

\* the body was not JSON: json() threw, and the promise resolved to the
\* error result
C11_Witness ==
    /\ loadDone
    /\ response.kind = "badJson"
    /\ loadResult.data = Null
    /\ loadResult.builds = <<>>
    /\ "error" \in DOMAIN loadResult
    /\ loadResult.error = <<"Unexpected token">>

(***************************************************************************)
(* Properties of the facet extraction (specification SpecFacet)            *)
(***************************************************************************)
\* the sequence has every value of the set once and nothing else
ListsExactly(q, S) ==
    /\ {q[i] : i \in 1..Len(q)} = S
    /\ Len(q) = Cardinality(S)

\* C17: facet extraction returns each distinct input value exactly once
\* and nothing else: uniqueSorted in ascending lexicographic order,
\* sortVersions in the order of compareVersions, non-decreasing for 'asc'
\* and non-increasing for 'desc', so that the first element of the 'desc'
\* result is a maximum under compareVersions; the input array is not
\* changed.
C17_FacetsDistinctSorted ==
    [][facetDone' =>
        LET S == {facetValues[i] : i \in 1..Len(facetValues)}
            u == facetUnique'
            v == facetVersions'
        IN  /\ facetValues' = facetValues
            /\ ListsExactly(u, S)
            /\ ListsExactly(v, S)
            /\ \A i, j \in 1..Len(u) : i < j => SortCompare(u[i], u[j]) < 0
            /\ \A i, j \in 1..Len(v) :
                  i < j => IF facetDirection = "asc"
                             THEN compareVersions(v[i], v[j]) <= 0
                             ELSE compareVersions(v[i], v[j]) >= 0
            /\ (facetDirection = "desc" /\ v # <<>>) =>
                  \A x \in S : compareVersions(v[1], x) >= 0]_vars

\* 2.9, 2.10 and 2.9 again, descending: 2.10 and 2.9 as versions, 2.10 and
\* 2.9 as text
C17_Witness ==
    /\ facetDone
    /\ facetDirection = "desc"
    /\ facetValues = << <<"2", ".", "9">>, <<"2", ".", "1", "0">>, <<"2", ".", "9">> >>
    /\ facetVersions = << <<"2", ".", "1", "0">>, <<"2", ".", "9">> >>
    /\ facetUnique = << <<"2", ".", "1", "0">>, <<"2", ".", "9">> >>

(***************************************************************************)
(* Properties of the validator (specification SpecValidate)                *)
(***************************************************************************)
\* the Builds of a version mapping in the order of the traversal, each as
\* its id and the key of its group
Occurrences(versions) ==
    Concat([g \in 1..Len(versions) |->
              [j \in 1..Len(versions[g].arr) |->
                  [id |-> versions[g].arr[j].id, key |-> versions[g].key]]])

\* the positions whose id stands at an earlier position too
Repeats(occ) ==
    {j \in 1..Len(occ) : \E i \in 1..(j - 1) : occ[i].id = occ[j].id}

DuplicateLines == {i \in 1..Len(stderr) : stderr[i].line = "duplicate"}

\* C12: the duplicate-id check runs only after structural validation has
\* succeeded; it goes through all version groups and fails as soon as an id
\* repeats, in the same group or in another one, reporting the first
\* repeated occurrence with its id and the version group it was found in; a
\* catalog whose ids are all distinct passes.
C12_DuplicateIdCheck ==
    (validated /\ invocation.kind = "parsed") =>
        LET errors == dataSchema(invocation.parsed)
        IN  /\ errors # <<>> => DuplicateLines = {}
            /\ errors = <<>> =>
                 LET occ == Occurrences(invocation.parsed.versions)
                     rep == Repeats(occ)
                 IN  /\ rep = {} =>
                          /\ DuplicateLines = {}
                          /\ exitCode = 0
                     /\ rep # {} =>
                          LET j == CHOOSE k \in rep : \A h \in rep : k <= h
                          IN  /\ stderr = <<[line |-> "duplicate",
                                             id |-> occ[j].id,
                                             mcVersion |-> occ[j].key]>>
                              /\ exitCode = 1

\* an id of the first group repeated in the second group, reported with
\* the key of the second group
C12_Witness ==
    /\ validated
    /\ invocation.kind = "parsed"
    /\ dataSchema(invocation.parsed) = <<>>
    /\ Len(invocation.parsed.versions) = 2
    /\ Repeats(Occurrences(<<invocation.parsed.versions[1]>>)) = {}
    /\ Repeats(Occurrences(<<invocation.parsed.versions[2]>>)) = {}
    /\ Len(stderr) = 1
    /\ stderr[1].line = "duplicate"
    /\ stderr[1].mcVersion = invocation.parsed.versions[2].key
    /\ exitCode = 1

\* the payload passes structural validation and no id repeats
PassesValidation(inv) ==
    /\ inv.kind = "parsed"
    /\ dataSchema(inv.parsed) = <<>>
    /\ Repeats(Occurrences(inv.parsed.versions)) = {}

\* C13: the validator prints the one-line confirmation and exits with
\* status zero if and only if the payload passes structural validation and
\* has no duplicate id; in every other outcome (no file argument, a file
\* that cannot be read, a file that is not JSON, structural errors, a
\* duplicate id) the exit status is not zero, something is written to the
\* error stream and the confirmation is not printed.
C13_ExitStatus ==
    validated =>
        /\ PassesValidation(invocation) =>
              /\ exitCode = 0
              /\ stdout = <<[line |-> "valid"]>>
              /\ stderr = <<>>
        /\ ~PassesValidation(invocation) =>
              /\ exitCode # 0
              /\ stderr # <<>>
              /\ stdout = <<>>

\* a catalog of two version groups with distinct ids is confirmed valid
C13_Witness ==
    /\ validated
    /\ invocation.kind = "parsed"
    /\ exitCode = 0
    /\ stdout = <<[line |-> "valid"]>>
    /\ Len(invocation.parsed.versions) = 2

\* a string value that is empty, or (when blanks count) all blanks
IsBlank(v, blanksToo) == v = <<>> \/ (blanksToo /\ Trim(v) = <<>>)

\* the download has an empty (or blank) name, checksum or notes
DownloadHasBlank(d, blanksToo) ==
    \E f \in {"name", "checksum", "notes"} \cap DOMAIN d : IsBlank(d[f], blanksToo)

\* the Build has an empty (or blank) id, repo, fork, jsMacrosVersion,
\* notes, extension identifier, or download name, checksum or notes
BuildHasBlank(b, blanksToo) ==
    \/ \E f \in {"id", "repo", "fork", "jsMacrosVersion", "notes"} \cap DOMAIN b :
          IsBlank(b[f], blanksToo)
    \/ \E k \in 1..Len(b.extensions) : IsBlank(b.extensions[k], blanksToo)
    \/ \E k \in 1..Len(b.downloads) : DownloadHasBlank(b.downloads[k], blanksToo)

CatalogHasBlank(parsed, blanksToo) ==
    /\ parsed # Null
    /\ \/ "updatedAt" \in DOMAIN parsed /\ IsBlank(parsed.updatedAt, blanksToo)
       \/ /\ "versions" \in DOMAIN parsed
          /\ \E g \in 1..Len(parsed.versions) :
               \E j \in 1..Len(parsed.versions[g].arr) :
                   BuildHasBlank(parsed.versions[g].arr[j], blanksToo)

\* structural validation failed: the header line and the issues
Rejected == exitCode = 1 /\ stderr # <<>> /\ stderr[1].line = "failed"

\* C14 as stated: structural validation rejects every catalog in which id,
\* repo, fork, jsMacrosVersion, a download name, updatedAt, an extension
\* identifier, or a present notes or checksum is the empty string or
\* consists only of white space.
C14_RejectsBlank_Original ==
    (validated /\ invocation.kind = "parsed"
       /\ CatalogHasBlank(invocation.parsed, TRUE)) => Rejected

\* a value of all blanks replaced by a text without blanks
Unblank(v) == IF v # <<>> /\ Trim(v) = <<>> THEN <<"x">> ELSE v

UnblankDownload(d) ==
    [f \in DOMAIN d |->
        IF f \in {"name", "checksum", "notes"} THEN Unblank(d[f]) ELSE d[f]]

UnblankBuild(b) ==
    [f \in DOMAIN b |->
        IF f \in {"id", "repo", "fork", "jsMacrosVersion", "notes"}
          THEN Unblank(b[f])
        ELSE IF f = "extensions"
          THEN [k \in 1..Len(b[f]) |-> Unblank(b[f][k])]
        ELSE IF f = "downloads"
          THEN [k \in 1..Len(b[f]) |-> UnblankDownload(b[f][k])]
        ELSE b[f]]

UnblankCatalog(parsed) ==
    IF parsed = Null THEN Null
    ELSE [f \in DOMAIN parsed |->
            IF f = "updatedAt" THEN Unblank(parsed[f])
            ELSE [g \in 1..Len(parsed[f]) |->
                    [key |-> parsed[f][g].key,
                     arr |-> [j \in 1..Len(parsed[f][g].arr) |->
                                UnblankBuild(parsed[f][g].arr[j])]]]]

\* C14 (amended): structural validation rejects every catalog in which one
\* of those fields is the empty string; a value that consists only of white
\* space has length 1 or more and is judged like any other non-empty text:
\* the catalog is rejected exactly when it would be with that value
\* replaced by a text without white space.
C14_RejectsEmpty ==
    (validated /\ invocation.kind = "parsed") =>
        /\ CatalogHasBlank(invocation.parsed, FALSE) => Rejected
        /\ Rejected <=> dataSchema(UnblankCatalog(invocation.parsed)) # <<>>

\* a Build whose id is the empty string, reported as too small
C14_Witness ==
    /\ validated
    /\ invocation.kind = "parsed"
    /\ "versions" \in DOMAIN invocation.parsed
    /\ \E g \in 1..Len(invocation.parsed.versions) :
         \E j \in 1..Len(invocation.parsed.versions[g].arr) :
            /\ "id" \in DOMAIN invocation.parsed.versions[g].arr[j]
            /\ invocation.parsed.versions[g].arr[j].id = <<>>
            /\ stderr = <<[line |-> "failed"],
                          [line |-> "issue",
                           issue |-> Issue(invocation.parsed.versions[g].key, j,
                                           "id", 0, "too_small")]>>
    /\ exitCode = 1

(***************************************************************************)
(* Properties of guideResults (specification SpecGuide)                    *)
(***************************************************************************)
Range(q) == {q[i] : i \in 1..Len(q)}

\* the three criteria of the guide, for the selection of the state
MeetsCriteria(b) ==
    /\ selectedMcVersion = <<>> \/ b.mcVersion = selectedMcVersion
    /\ selectedLoader = <<>> \/ selectedLoader \in Range(b.modLoader)
    /\ Range(extensionFilters) \subseteq Range(b.extensions)

\* C4: the guide result contains exactly the entries that satisfy the
\* three criteria at once (the selected version, when one is selected; the
\* selected loader, when one is selected; every required extension); an
\* unset version or loader excludes no entry; with version V selected every
\* returned entry has mcVersion = V, and no matching entry is missing.
C4_GuideExactlyMatching ==
    rendered =>
        /\ Range(guideResults) = {b \in Range(builds) : MeetsCriteria(b)}
        /\ Len(guideResults) = Cardinality(Range(guideResults))
        /\ selectedMcVersion # <<>> =>
              \A i \in 1..Len(guideResults) :
                  guideResults[i].mcVersion = selectedMcVersion
        /\ (selectedMcVersion = <<>> /\ selectedLoader = <<>>
              /\ extensionFilters = <<>>) => Len(guideResults) = Len(builds)

\* a version, a loader and an extension selected; some entries pass, others
\* do not
C4_Witness ==
    /\ rendered
    /\ selectedMcVersion = <<"2", ".", "1", "0">>
    /\ selectedLoader = fabric
    /\ extensionFilters = <<luaj>>
    /\ Len(guideResults) >= 1
    /\ Len(guideResults) < Len(builds)
    /\ \E i \in 1..Len(builds) :
          /\ builds[i].mcVersion # selectedMcVersion
          /\ selectedLoader \in Range(builds[i].modLoader)
          /\ luaj \in Range(builds[i].extensions)

\* C5: the required-extension criterion is all-of: an entry passes if and
\* only if its extension list contains every required extension; an empty
\* requirement passes every entry; an entry with only some of the required
\* extensions is excluded, one with extra extensions is included.
C5_ExtensionsAllOf ==
    rendered =>
        \A i \in 1..Len(builds) :
            /\ buildMatchesExtensions(builds[i], extensionFilters)
                 <=> (\A x \in Range(extensionFilters) :
                          x \in Range(builds[i].extensions))
            /\ extensionFilters = <<>> =>
                 buildMatchesExtensions(builds[i], extensionFilters)
            /\ (selectedMcVersion = <<>> /\ selectedLoader = <<>>) =>
                 (builds[i] \in Range(guideResults)
                    <=> (\A x \in Range(extensionFilters) :
                             x \in Range(builds[i].extensions)))

\* luaj and js required: the entry with luaj alone is left out, the entry
\* with luaj, js and jython is in
C5_Witness ==
    /\ rendered
    /\ selectedMcVersion = <<>>
    /\ selectedLoader = <<>>
    /\ extensionFilters = <<luaj, js>>
    /\ \E i \in 1..Len(builds) :
          /\ builds[i].extensions = <<luaj>>
          /\ builds[i] \notin Range(guideResults)
    /\ \E i \in 1..Len(builds) :
          /\ builds[i].extensions = <<luaj, js, jython>>
          /\ builds[i] \in Range(guideResults)

\* C19: the guide result of part_001 is ordered newest first: of any two
\* entries the earlier one has the later or the same publish time (0 when
\* publishedAt is absent), and when the times are equal its mcVersion
\* compares >= 0 with that of the later one.  Only entries whose
\* publishedAt is a date or absent are compared.
C19_GuideNewestFirst ==
    (rendered /\ revision = "part_001") =>
        \A i, j \in 1..Len(guideResults) :
            LET ti == PublishedTime(guideResults[i])
                tj == PublishedTime(guideResults[j])
            IN  (i < j /\ ~ti.nan /\ ~tj.nan) =>
                    /\ ti.t >= tj.t
                    /\ ti.t = tj.t =>
                          compareVersions(guideResults[i].mcVersion,
                                          guideResults[j].mcVersion) >= 0

(***************************************************************************)
(* Properties of listResults (specification SpecList)                      *)
(***************************************************************************)
\* C6 as stated: an entry is in the list if and only if the lowercased
\* query is a substring of the lowercased, space-joined concatenation of
\* mcVersion, jsMacrosVersion, fork, repo, releaseType, the loaders, the
\* extensions and the notes.
C6_SearchSubstring_Original ==
    rendered =>
        \A i \in 1..Len(builds) :
            builds[i] \in Range(listResults)
                <=> Includes(Haystack000(builds[i]), ToLowerCase(search))

\* C6 (amended): an entry is in the list if and only if the query, trimmed
\* of surrounding white space and lowercased, is a substring of the
\* lowercased, space-joined concatenation of mcVersion, jsMacrosVersion,
\* fork, repo, releaseType, the loaders, the extensions and the notes (in
\* the revision that reads them, also sourceUrl after repo and the word
\* "deprecated" after releaseType, each empty when absent); an empty query
\* matches every entry; the letter case of the query does not matter.
C6_SearchSubstring ==
    rendered =>
        /\ \A i \in 1..Len(builds) :
              builds[i] \in Range(listResults)
                  <=> Includes(Haystack(revision, builds[i]),
                               ToLowerCase(Trim(search)))
        /\ search = <<>> => Len(listResults) = Len(builds)
        /\ \A i \in 1..Len(builds) :
              builds[i] \in Range(listResults)
                  <=> SearchMatches(revision, builds[i], ToLowerCase(search))

\* the query JSM finds the entries of fork JsM and no others
C6_Witness ==
    /\ rendered
    /\ search = <<"J", "S", "M">>
    /\ Len(listResults) >= 1
    /\ Len(listResults) < Len(builds)
    /\ \A i \in 1..Len(listResults) : listResults[i].fork = <<"J", "s", "M">>

\* C7: sorted by publish date ascending, every entry without publishedAt
\* comes before every entry with one, whatever YYYY-MM-DD text it has.
C7_MissingDateFirst ==
    (rendered /\ sortKey = "publishedAt" /\ sortDirection = "asc") =>
        \A i, j \in 1..Len(listResults) :
            ("publishedAt" \notin DOMAIN listResults[i]
               /\ "publishedAt" \in DOMAIN listResults[j]) => i < j

\* the position of an entry in the loaded collection
PositionIn(all, e) == CHOOSE k \in 1..Len(all) : all[k] = e

\* the list is the search-filtered collection, rearranged in the order of
\* the comparator, entries that compare equal in their original order
SortedStableList(all, list, rev, text, key, direction) ==
    /\ Range(list) = {b \in Range(all) : SearchMatches(rev, b, text)}
    /\ Len(list) = Cardinality(Range(list))
    /\ \A i, j \in 1..Len(list) :
          i < j =>
            /\ ListCompare(list[i], list[j], key, direction) <= 0
            /\ ListCompare(list[i], list[j], key, direction) = 0
                  => PositionIn(all, list[i]) < PositionIn(all, list[j])

\* C8: for every sort key and direction the list is a new sequence that is
\* a permutation of the search-filtered entries, ordered consistently with
\* the comparator of the key in the chosen direction, entries with equal
\* keys in their original relative order; the loaded collection is left
\* unchanged.
C8_SortedStablePermutation ==
    [][rendered' =>
          /\ builds' = builds
          /\ SortedStableList(builds', listResults', revision', search',
                              sortKey', sortDirection')]_vars

\* C9: by jsMacrosVersion the list is in the order of plain text ("2.10"
\* before "2.9" ascending), by mcVersion in the order of compareVersions
\* ("2.9" before "2.10" ascending).
C9_TextOrderVersusNumeric ==
    (rendered /\ sortDirection = "asc") =>
        \A i, j \in 1..Len(listResults) :
            LET x == listResults[i]
                y == listResults[j]
            IN  /\ (sortKey = "jsMacrosVersion" /\ i < j) =>
                      /\ localeCompare(x.jsMacrosVersion, y.jsMacrosVersion) <= 0
                      /\ ~ (x.jsMacrosVersion = <<"2", ".", "9">>
                              /\ y.jsMacrosVersion = <<"2", ".", "1", "0">>)
                /\ (sortKey = "mcVersion" /\ i < j) =>
                      /\ compareVersions(x.mcVersion, y.mcVersion) <= 0
                      /\ ~ (x.mcVersion = <<"2", ".", "1", "0">>
                              /\ y.mcVersion = <<"2", ".", "9">>)

\* ascending by jsMacrosVersion: 2.10 stands first although the collection
\* has 2.9 first
C9_Witness ==
    /\ rendered
    /\ sortKey = "jsMacrosVersion"
    /\ sortDirection = "asc"
    /\ Len(listResults) = 2
    /\ builds[1].jsMacrosVersion = <<"2", ".", "9">>
    /\ listResults[1].jsMacrosVersion = <<"2", ".", "1", "0">>
    /\ listResults[2].jsMacrosVersion = <<"2", ".", "9">>

(***************************************************************************)
(* Properties of App (specification Spec)                                  *)
(***************************************************************************)
\* C15: search and sort apply only to the list: with the entry collection
\* fixed, a step that changes the search text, the sort key or the sort
\* direction (and nothing of the guide selection) leaves the guide result
\* as it is, members and order, and a step that changes the selected
\* version, the selected loader or the required extensions (and nothing of
\* the list's inputs) leaves the list result as it is.
C15_SearchSortOnlyList ==
    [][/\ (builds' = builds /\ guideInputs' = guideInputs)
            => guideResults' = guideResults
       /\ (builds' = builds /\ listInputs' = listInputs)
            => listResults' = listResults]_vars

\* on the list tab a search has narrowed the list and the sort is
\* ascending, while the guide still shows what it showed
C15_Witness ==
    /\ loadDone
    /\ tab = "list"
    /\ search = <<"J", "S", "M">>
    /\ sortDirection = "asc"
    /\ Len(listResults) < Len(builds)
    /\ Len(guideResults) >= 1
    /\ \E i \in 1..Len(guideResults) : guideResults[i] \notin Range(listResults)

\* C16: the entry collection is set once, by the callback of the load
\* started at mount, to the whole array loadBuilds resolved to; after that
\* no step (a tab, a version, a loader, an extension, a search text, a
\* sort key or direction, the renders that follow) changes its entries or
\* their order.
C16_CollectionSetOnce ==
    [][/\ loadDone => builds' = builds
       /\ (~loadDone /\ builds' # builds) =>
             (loadDone' /\ builds' = loadBuilds(response).builds)
       /\ (~loadDone /\ loadDone') => builds' = loadBuilds(response).builds]_vars

\* after the load the user has searched, sorted by another key and
\* required an extension; the collection is still the loaded one
C16_Witness ==
    /\ loadDone
    /\ Len(builds) = 3
    /\ builds = loadResult.builds
    /\ search # <<>>
    /\ sortKey = "mcVersion"
    /\ extensionFilters # <<>>
    /\ listResults # builds

\* C18: when the load resolves with a non-empty collection the selected
\* version becomes a latest version present: one whose compareVersions
\* result against every version tag of the collection is >= 0; when it
\* resolves with an empty collection (a failed load included) the selected
\* version is the empty selection.
C18_LatestSelectedOnLoad ==
    [][(~loadDone /\ loadDone') =>
          IF builds' # <<>>
            THEN /\ \E i \in 1..Len(builds') :
                       builds'[i].mcVersion = selectedMcVersion'
                 /\ \A i \in 1..Len(builds') :
                       compareVersions(selectedMcVersion',
                                       builds'[i].mcVersion) >= 0
            ELSE selectedMcVersion' = <<>>]_vars

\* the collection begins with entries of 2.9, and 2.10 is selected
C18_Witness ==
    /\ loadDone
    /\ tab = "guide" /\ search = <<>> /\ extensionFilters = <<>>
    /\ selectedLoader = <<>>
    /\ Len(builds) = 3
    /\ builds[1].mcVersion = <<"2", ".", "9">>
    /\ selectedMcVersion = <<"2", ".", "1", "0">>
    /\ \A i \in 1..Len(guideResults) :
          guideResults[i].mcVersion = <<"2", ".", "1", "0">>

\* the load failed: what loadBuilds resolved to has an error message
LoadFailed(r) == "error" \in DOMAIN r

\* C20: the view starts loading; in the step in which the load settles
\* (a 2xx response, another response, something thrown) loading becomes
\* false, the error is set if and only if the load failed, updatedAt is
\* set only if the load succeeded and the collection is empty whenever an
\* error is set; loading never becomes true again.
C20_LoadingSettles ==
    /\ [](~loadDone => (loading /\ error = Undefined /\ updatedAt = ""))
    /\ [][/\ ~loading => ~loading'
          /\ (~loadDone /\ loadDone') =>
                /\ ~loading'
                /\ error' # Undefined <=> response.kind # "ok"
                /\ error' # Undefined <=> LoadFailed(loadBuilds(response))
                /\ updatedAt' # "" => response.kind = "ok"
                /\ error' # Undefined => builds' = <<>>]_vars

\* the server answered 404: not loading, the error shown, no entries, no
\* date of update
C20_Witness ==
    /\ loadDone
    /\ response.kind = "notOk"
    /\ ~loading
    /\ error = [message |-> <<"Failed to fetch data (", "404", ")">>]
    /\ builds = <<>>
    /\ updatedAt = ""

\* C21: in every state of the view, before and after the load and after
\* any user actions, the selected version is the empty selection or a
\* version tag of an entry of the collection, the selected loader is the
\* empty selection or a loader of an entry of the collection, and the
\* required extensions are extensions of entries of the collection, none
\* of them twice.
C21_SelectionsPresent ==
    /\ \/ selectedMcVersion = <<>>
       \/ \E i \in 1..Len(builds) : builds[i].mcVersion = selectedMcVersion
    /\ \/ selectedLoader = <<>>
       \/ \E i \in 1..Len(builds) : selectedLoader \in Range(builds[i].modLoader)
    /\ \A k \in 1..Len(extensionFilters) :
          \E i \in 1..Len(builds) :
              extensionFilters[k] \in Range(builds[i].extensions)
    /\ \A k, l \in 1..Len(extensionFilters) :
          k # l => extensionFilters[k] # extensionFilters[l]

\* the user has chosen the older version and a loader, and has checked
\* jython and then luaj
C21_Witness ==
    /\ loadDone
    /\ Len(builds) = 3
    /\ selectedMcVersion = <<"2", ".", "9">>
    /\ selectedLoader = forge
    /\ extensionFilters = <<jython, luaj>>
    /\ Len(guideResults) = 1

====
